---- MODULE Spec2Model ----
(***************************************************************************)
(* PMMNatrMacdInventoryStrategy (hummingbot_script/pmm_natr_macd_inventory *)
(* .py): the on_tick quote derivation and order reconciliation cycle.      *)
(*                                                                         *)
(* A Decimal is a record [inf, sign, digits, exp]:                         *)
(*   finite     inf = 0, value sign * digits * 10^exp, digits being the    *)
(*              coefficient's decimal digits, most significant first;     *)
(*   Infinity   inf = 1; -Infinity  inf = -1.                              *)
(* Finite values are kept normalized (no leading and no trailing zero      *)
(* digit, zero is DecZero), so that two Decimals that compare equal in     *)
(* Python (1.0 == 1.00, 0 == -0) are one value here. Arithmetic is that of *)
(* the default context: the exact result rounded half-even to Precision    *)
(* significant digits and to no digit below 10^Etiny, with                 *)
(* InvalidOperation and Overflow (a result above the largest exponent)     *)
(* trapped, that is raised, and Underflow not.                             *)
(* Order amounts are integers, in units of 1e-3 base units.                *)
(***************************************************************************)
EXTENDS Integers, Sequences, FiniteSets, TLC

VARIABLES
    current_timestamp,  \* self.current_timestamp, the clock's time in seconds
    next_tick,          \* self._next_tick (getattr default 0)
    last_bid_spread,    \* self._last_bid_spread
    last_ask_spread,    \* self._last_ask_spread
    last_inv_norm,      \* self._last_inv_norm
    active_orders,      \* get_active_orders(exchange): the open orders
    outcome,            \* how the most recent step ended (on_tick's exit path)
    frame,              \* the shape of the candle window the most recent on_tick read
    quote,              \* the locals of the most recent on_tick's quote derivation
    calls,              \* the cancel / buy / sell calls of the most recent on_tick
    cycle_at            \* time of the most recent completed cycle (-1: none yet)

vars == <<current_timestamp, next_tick, last_bid_spread, last_ask_spread,
          last_inv_norm, active_orders, outcome, frame, quote, calls,
          cycle_at>>

Max(a, b) == IF a >= b THEN a ELSE b
Min(a, b) == IF a <= b THEN a ELSE b

----------------------------------------------------------------------------
(* Natural numbers of any size, as sequences of decimal digits, the most   *)
(* significant first and not zero; <<>> is 0. The coefficients of Decimal. *)

Zeros(k) == [i \in 1..k |-> 0]
PadLeft(d, n) == Zeros(n - Len(d)) \o d

(* The number of zero digits d begins with, and ends with. *)
LeadingZeros(d) ==
    IF \A i \in 1..Len(d) : d[i] = 0 THEN Len(d)
    ELSE (CHOOSE i \in 1..Len(d) :
            d[i] # 0 /\ \A j \in 1..(i - 1) : d[j] = 0) - 1
TrailingZeros(d) ==
    IF \A i \in 1..Len(d) : d[i] = 0 THEN Len(d)
    ELSE Len(d) - (CHOOSE i \in 1..Len(d) :
                     d[i] # 0 /\ \A j \in (i + 1)..Len(d) : d[j] = 0)

StripLeading(d) == SubSeq(d, LeadingZeros(d) + 1, Len(d))

(* The digits of an integer 0 <= n < 10^9. *)
DigitCount(n) == CHOOSE k \in 0..9 : n < 10^k /\ (k = 0 \/ n >= 10^(k - 1))
NatDigits(n) ==
    [i \in 1..DigitCount(n) |-> (n \div 10^(DigitCount(n) - i)) % 10]

RECURSIVE LexCmp(_, _, _)
LexCmp(a, b, i) ==
    IF i > Len(a) THEN 0
    ELSE IF a[i] < b[i] THEN -1
    ELSE IF a[i] > b[i] THEN 1
    ELSE LexCmp(a, b, i + 1)

(* -1, 0 or 1 as a < b, a = b or a > b. *)
NatCmp(a, b) ==
    IF Len(a) < Len(b) THEN -1
    ELSE IF Len(a) > Len(b) THEN 1
    ELSE LexCmp(a, b, 1)

(* Digit by digit from the least significant one, which comes first in    *)
(* the result of the ...From operators.                                    *)
Reverse(d) == [i \in 1..Len(d) |-> d[Len(d) + 1 - i]]

RECURSIVE AddFrom(_, _, _, _)
AddFrom(a, b, i, carry) ==
    IF i = 0 THEN (IF carry = 0 THEN <<>> ELSE <<carry>>)
    ELSE LET s == a[i] + b[i] + carry
         IN  <<s % 10>> \o AddFrom(a, b, i - 1, s \div 10)

NatAdd(a, b) ==
    LET n == Max(Len(a), Len(b))
    IN  Reverse(AddFrom(PadLeft(a, n), PadLeft(b, n), n, 0))

RECURSIVE SubFrom(_, _, _, _)
SubFrom(a, b, i, borrow) ==
    IF i = 0 THEN <<>>
    ELSE LET s == a[i] - b[i] - borrow
         IN  <<IF s < 0 THEN s + 10 ELSE s>>
               \o SubFrom(a, b, i - 1, IF s < 0 THEN 1 ELSE 0)

(* a - b, for a >= b. *)
NatSub(a, b) ==
    StripLeading(Reverse(SubFrom(a, PadLeft(b, Len(a)), Len(a), 0)))

RECURSIVE MulFrom(_, _, _, _)
MulFrom(a, m, i, carry) ==
    IF i = 0 THEN (IF carry = 0 THEN <<>> ELSE <<carry>>)
    ELSE LET s == a[i] * m + carry
         IN  <<s % 10>> \o MulFrom(a, m, i - 1, s \div 10)

(* a * m, for a digit m. *)
NatMulDigit(a, m) == StripLeading(Reverse(MulFrom(a, m, Len(a), 0)))

(* Long multiplication: the sum of the products a_i * b_(c-i) of column c  *)
(* (the column of 10^c; a_0 and b_0 are the last digits), for i from i up  *)
(* to hi, then the carries from column 0 upwards.                          *)
RECURSIVE ColumnSum(_, _, _, _, _)
ColumnSum(a, b, c, i, hi) ==
    IF i > hi THEN 0
    ELSE a[Len(a) - i] * b[Len(b) - (c - i)] + ColumnSum(a, b, c, i + 1, hi)

RECURSIVE MulFromColumn(_, _, _, _)
MulFromColumn(a, b, c, carry) ==
    IF c = Len(a) + Len(b) THEN <<>>
    ELSE LET s == ColumnSum(a, b, c, Max(0, c - Len(b) + 1),
                            Min(c, Len(a) - 1)) + carry
         IN  <<s % 10>> \o MulFromColumn(a, b, c + 1, s \div 10)

NatMul(a, b) == StripLeading(Reverse(MulFromColumn(a, b, 0, 0)))

(* The largest digit k with d * k <= r, for r < 10 * d. *)
QuotDigit(r, d) ==
    CHOOSE k \in 0..9 :
        /\ NatCmp(NatMulDigit(d, k), r) <= 0
        /\ k = 9 \/ NatCmp(NatMulDigit(d, k + 1), r) > 0

(* Long division from the most significant digit i of n on, r being the   *)
(* remainder and q the quotient digits so far.                             *)
RECURSIVE DivFrom(_, _, _, _, _)
DivFrom(n, d, i, r, q) ==
    IF i > Len(n) THEN [q |-> StripLeading(q), r |-> r]
    ELSE LET r1 == StripLeading(Append(r, n[i]))
             k == QuotDigit(r1, d)
         IN  IF k = 0 THEN DivFrom(n, d, i + 1, r1, Append(q, 0))
             ELSE DivFrom(n, d, i + 1, NatSub(r1, NatMulDigit(d, k)),
                          Append(q, k))

(* Quotient and remainder of n by d, for d # 0. *)
NatDivMod(n, d) == DivFrom(n, d, 1, <<>>, <<>>)

----------------------------------------------------------------------------
(* Decimal values and the arithmetic of the default context. *)

(* decimal.getcontext(): prec, Emax, and Etiny() = Emin - prec + 1 with    *)
(* Emin = -Emax.                                                           *)
Precision == 28
Emax == 999999
Etiny == -Emax - Precision + 1

DecZero == [inf |-> 0, sign |-> 0, digits |-> <<>>, exp |-> 0]

(* Decimal("Infinity") and Decimal("-Infinity"). *)
PosInf == [inf |-> 1, sign |-> 1, digits |-> <<>>, exp |-> 0]
NegInf == [inf |-> -1, sign |-> -1, digits |-> <<>>, exp |-> 0]

(* The finite Decimal sign * c * 10^e, normalized. *)
Normal(sign, c, e) ==
    IF c = <<>> \/ sign = 0 THEN DecZero
    ELSE LET z == TrailingZeros(c)
         IN  [inf |-> 0, sign |-> sign,
              digits |-> SubSeq(c, 1, Len(c) - z), exp |-> e + z]

(* The context's rounding of (c + f) * 10^e, where c has no leading zero,  *)
(* 0 <= f < 1 and sticky says that f > 0: ROUND_HALF_EVEN at the exponent  *)
(* RoundExp, which leaves Precision digits, or fewer for a result that     *)
(* reaches below 10^Etiny (one wholly below it rounds to zero).            *)
RoundExp(c, e) == Max(e + Len(c) - Precision, Etiny)
Rounded(c, e, sticky) ==
    LET t == RoundExp(c, e)
        n == Len(c) + e - t
    IN  IF e >= t THEN [digits |-> c, exp |-> e]
        ELSE IF n < 0 THEN [digits |-> <<>>, exp |-> t]
        ELSE LET kept == SubSeq(c, 1, n)
                 rest == SubSeq(c, n + 1, Len(c))
                 below == sticky \/ \E i \in 2..Len(rest) : rest[i] # 0
                 odd == n > 0 /\ kept[n] % 2 = 1
                 up == \/ rest[1] > 5
                       \/ rest[1] = 5 /\ (below \/ odd)
             IN  [digits |-> IF up THEN NatAdd(kept, <<1>>) ELSE kept,
                  exp |-> t]

(* The rounded result lies above 10^Emax: the context raises Overflow. *)
Overflows(c, e, sticky) ==
    LET r == Rounded(c, e, sticky)
    IN  r.digits # <<>> /\ r.exp + Len(r.digits) - 1 > Emax

(* The rounded result with its sign, where that is no Overflow. *)
Round(sign, c, e, sticky) ==
    LET r == Rounded(c, e, sticky) IN Normal(sign, r.digits, r.exp)

(* Decimal(n) for an integer n, and Decimal("<n>E<e>"). *)
DecE(n, e) ==
    Normal(IF n < 0 THEN -1 ELSE 1, NatDigits(IF n < 0 THEN -n ELSE n), e)
DecInt(n) == DecE(n, 0)

(* The normalized finite Decimals, an input may be any of which. *)
FiniteDecs ==
    {d \in [inf : {0}, sign : {-1, 0, 1}, digits : Seq(0..9), exp : Int] :
        \/ d = DecZero
        \/ /\ d.sign # 0
           /\ d.digits # <<>>
           /\ d.digits[1] # 0
           /\ d.digits[Len(d.digits)] # 0}

IsInfinite(a) == a.inf # 0

DecNeg(a) == [a EXCEPT !.sign = -a.sign, !.inf = -a.inf]

(* The coefficient of a finite nonzero a at the exponent e <= a.exp. *)
Aligned(a, e) == a.digits \o Zeros(a.exp - e)

(* -1, 0 or 1 as |a| < |b|, |a| = |b| or |a| > |b|, for finite nonzero a   *)
(* and b: by the position of the leading digit, then by the digits.        *)
MagCmp(a, b) ==
    LET pa == a.exp + Len(a.digits)
        pb == b.exp + Len(b.digits)
        n == Max(Len(a.digits), Len(b.digits))
    IN  IF pa < pb THEN -1
        ELSE IF pa > pb THEN 1
        ELSE LexCmp(a.digits \o Zeros(n - Len(a.digits)),
                    b.digits \o Zeros(n - Len(b.digits)), 1)

(* Decimal's comparison: -1, 0 or 1 as a < b, a == b or a > b. *)
DecCmp(a, b) ==
    IF IsInfinite(a) \/ IsInfinite(b)
    THEN (IF a.inf < b.inf THEN -1 ELSE IF a.inf > b.inf THEN 1 ELSE 0)
    ELSE IF a.sign < b.sign THEN -1
    ELSE IF a.sign > b.sign THEN 1
    ELSE IF a.sign = 0 THEN 0
    ELSE a.sign * MagCmp(a, b)

DecLt(a, b) == DecCmp(a, b) < 0
DecLe(a, b) == DecCmp(a, b) <= 0

(* Python's max(a, b) and min(a, b) on Decimals: the first argument unless *)
(* the second is greater, or smaller.                                      *)
DecMax(a, b) == IF DecLt(a, b) THEN b ELSE a
DecMin(a, b) == IF DecLt(b, a) THEN b ELSE a

(* a + b is InvalidOperation: Infinity + -Infinity. *)
DecAddInvalid(a, b) == IsInfinite(a) /\ IsInfinite(b) /\ a.inf # b.inf

(* The operand of a sum with the smaller exponent, as the sum sees it: one *)
(* that lies wholly more than a digit below the last digit the context     *)
(* keeps of the other counts as a single unit there (it can only decide    *)
(* the rounding).                                                          *)
Operand(lo, hi) ==
    LET limit == hi.exp + Min(-1, Len(hi.digits) - Precision - 2)
    IN  IF lo.exp + Len(lo.digits) - 1 < limit
        THEN [lo EXCEPT !.digits = <<1>>, !.exp = limit]
        ELSE lo

(* The exact a + b of finite a and b (up to what cannot change the        *)
(* rounding), as sign, coefficient and exponent.                           *)
Sum(a, b) ==
    IF a.sign = 0 THEN [sign |-> b.sign, c |-> b.digits, e |-> b.exp]
    ELSE IF b.sign = 0 THEN [sign |-> a.sign, c |-> a.digits, e |-> a.exp]
    ELSE LET x == IF a.exp < b.exp THEN Operand(a, b) ELSE a
             y == IF a.exp < b.exp THEN b ELSE Operand(b, a)
             e == Min(x.exp, y.exp)
             mx == Aligned(x, e)
             my == Aligned(y, e)
             c == NatCmp(mx, my)
         IN  IF x.sign = y.sign
             THEN [sign |-> x.sign, c |-> StripLeading(NatAdd(mx, my)), e |-> e]
             ELSE IF c = 0 THEN [sign |-> 0, c |-> <<>>, e |-> e]
             ELSE IF c > 0 THEN [sign |-> x.sign, c |-> NatSub(mx, my), e |-> e]
             ELSE [sign |-> y.sign, c |-> NatSub(my, mx), e |-> e]

(* a + b raises: InvalidOperation or Overflow. *)
DecAddOverflow(a, b) ==
    /\ ~IsInfinite(a)
    /\ ~IsInfinite(b)
    /\ LET s == Sum(a, b) IN Overflows(s.c, s.e, FALSE)
DecAddRaises(a, b) == DecAddInvalid(a, b) \/ DecAddOverflow(a, b)

(* a + b, where that does not raise. *)
DecAdd(a, b) ==
    IF IsInfinite(a) THEN a
    ELSE IF IsInfinite(b) THEN b
    ELSE LET s == Sum(a, b) IN Round(s.sign, s.c, s.e, FALSE)

DecSubInvalid(a, b) == DecAddInvalid(a, DecNeg(b))
DecSubRaises(a, b) == DecAddRaises(a, DecNeg(b))
DecSub(a, b) == DecAdd(a, DecNeg(b))

(* a * b is InvalidOperation: 0 * Infinity. *)
DecMulInvalid(a, b) ==
    \/ IsInfinite(a) /\ b.sign = 0
    \/ IsInfinite(b) /\ a.sign = 0

(* a * b raises: InvalidOperation or Overflow. *)
DecMulOverflow(a, b) ==
    /\ ~IsInfinite(a)
    /\ ~IsInfinite(b)
    /\ Overflows(NatMul(a.digits, b.digits), a.exp + b.exp, FALSE)
DecMulRaises(a, b) == DecMulInvalid(a, b) \/ DecMulOverflow(a, b)

(* a * b, where that does not raise. *)
DecMul(a, b) ==
    IF IsInfinite(a) \/ IsInfinite(b)
    THEN (IF a.sign = b.sign THEN PosInf ELSE NegInf)
    ELSE Round(a.sign * b.sign, NatMul(a.digits, b.digits), a.exp + b.exp,
               FALSE)

(* The quotient of finite nonzero a by finite nonzero b, carried to more   *)
(* than Precision digits, with its exponent; a remainder is sticky.        *)
Quotient(a, b) ==
    LET k == Max(0, Precision + 1 + Len(b.digits) - Len(a.digits))
        qr == NatDivMod(a.digits \o Zeros(k), b.digits)
    IN  [c |-> qr.q, e |-> a.exp - b.exp - k, sticky |-> qr.r # <<>>]

(* a / b for finite nonzero b raises: Overflow. *)
DecDivRaises(a, b) ==
    /\ ~IsInfinite(a)
    /\ a.sign # 0
    /\ LET q == Quotient(a, b) IN Overflows(q.c, q.e, q.sticky)

(* a / b for finite nonzero b, where that does not raise. *)
DecDiv(a, b) ==
    IF IsInfinite(a) THEN (IF a.sign = b.sign THEN PosInf ELSE NegInf)
    ELSE IF a.sign = 0 THEN DecZero
    ELSE LET q == Quotient(a, b)
         IN  Round(a.sign * b.sign, q.c, q.e, q.sticky)

----------------------------------------------------------------------------
(* Class-level configuration. *)

order_amount == 10
order_refresh_time == 15
natr_length == 30
bid_natr_scalar == DecDiv(DecInt(120), DecInt(10000))
ask_natr_scalar == DecDiv(DecInt(60), DecInt(10000))
macd_slow == 26
macd_signal == 9
macd_weight == DecE(5, -1)
inventory_phi == DecE(1, -2)
max_inventory == DecInt(1)
min_spread == DecE(1, -5)

(* Decimal(1) *)
One == DecInt(1)

----------------------------------------------------------------------------
(* Bounds of the explored behaviours, and the inputs on_tick may read. *)

MaxTime == 15
MaxSkewNatr == 3
MaxSkewHist == 4

Num(d) == [kind |-> "num", val |-> d]
NaN == [kind |-> "nan", val |-> DecZero]
Absent == [kind |-> "absent", val |-> DecZero]
Unparsable == [kind |-> "unparsable", val |-> DecZero]
PlusInf == [kind |-> "inf", val |-> DecZero]
MinusInf == [kind |-> "-inf", val |-> DecZero]

(* What on_tick may read: the latest cell of an indicator column (a       *)
(* finite float, given by the decimal str() prints for it, inf, -inf,      *)
(* NaN, no column, or an object Decimal cannot parse), and the top of book *)
(* as <<best bid, best ask>>, both positive.                               *)
Cells == [kind : {"num"}, val : FiniteDecs]
           \cup {PlusInf, MinusInf, NaN, Absent, Unparsable}
Books == {b \in FiniteDecs \X FiniteDecs : b[1].sign = 1 /\ b[2].sign = 1}

(* The values explored: NATR 0.002, histogram -0.00003 and 0.00006,        *)
(* balances 0 and 2, and a normal, a locked and a crossed book near 100    *)
(* and a normal one at 1000.                                               *)
SampledNatr == {DecE(2, -3)}
SampledHist == {DecE(-3, -5), DecE(6, -5)}
SampledBalances == {DecZero, DecInt(2)}
SampledNatrCells == {Num(n) : n \in SampledNatr} \cup {NaN, Unparsable}
SampledHistCells == {Num(h) : h \in SampledHist} \cup {NaN, Unparsable}
SampledBooks == {<<DecInt(100), DecInt(101)>>, <<DecInt(100), DecInt(100)>>,
                 <<DecInt(102), DecInt(100)>>, <<DecInt(1000), DecInt(1001)>>}

----------------------------------------------------------------------------
(* Helpers of the quote derivation. *)

RequiredRows == Max(natr_length, macd_slow + macd_signal)

(* Candle windows as on_tick sees them: the number of rows and the latest  *)
(* cell of each indicator column.                                          *)
Frames == [rows : Nat, natr : Cells, macd_hist : Cells]

(* The windows explored: one shorter than macd_slow has neither indicator  *)
(* column, one shorter than natr_length no NATR column and no histogram    *)
(* value yet, one a single row short has both values; a full one carries   *)
(* any latest cell, an infinite one in either column or in both, and a     *)
(* NATR so large that the base spread overflows (9E+1000001) or that the   *)
(* quotes do (8E+1000001).                                                 *)
SampledFrames ==
    {[rows |-> macd_slow - 1, natr |-> Absent, macd_hist |-> Absent],
     [rows |-> natr_length - 1, natr |-> Absent, macd_hist |-> NaN]}
    \cup {[rows |-> RequiredRows - 1, natr |-> Num(n), macd_hist |-> Num(h)] :
            n \in SampledNatr, h \in SampledHist}
    \cup {[rows |-> RequiredRows, natr |-> c, macd_hist |-> d] :
            c \in SampledNatrCells, d \in SampledHistCells}
    \cup {[rows |-> RequiredRows, natr |-> PlusInf,
           macd_hist |-> Num(DecE(3, -5))],
          [rows |-> RequiredRows, natr |-> Num(DecE(2, -3)),
           macd_hist |-> PlusInf],
          [rows |-> RequiredRows, natr |-> PlusInf, macd_hist |-> PlusInf],
          [rows |-> RequiredRows, natr |-> PlusInf, macd_hist |-> MinusInf],
          [rows |-> RequiredRows, natr |-> Num(DecE(9, 1000001)),
           macd_hist |-> Num(DecE(3, -5))],
          [rows |-> RequiredRows, natr |-> Num(DecE(8, 1000001)),
           macd_hist |-> Num(DecE(3, -5))]}

(* What a tick keeps of the window it read: its length and the kind of     *)
(* each latest cell.                                                       *)
Shape(f) == [rows |-> f.rows, natr |-> f.natr.kind, macd_hist |-> f.macd_hist.kind]

NoFrame == [rows |-> -1, natr |-> "absent", macd_hist |-> "absent"]
NoQuote == [bid_spread |-> DecZero, ask_spread |-> DecZero,
            ref_price |-> DecZero, best_bid |-> DecZero, best_ask |-> DecZero,
            buy_price |-> DecZero, sell_price |-> DecZero, adjusted |-> <<>>]
NoCalls == [cancels |-> {}, submits |-> <<>>]

(* line 79: the rate limit. *)
RateLimitedNever(ts, nt) == FALSE
RateLimited(ts, nt) == ts < nt

(* lines 97-98: the window is too short or an indicator column is absent. *)
WindowNotReadyMin(f) ==
    \/ f.rows < Min(natr_length, macd_slow + macd_signal)
    \/ f.natr.kind = "absent"
    \/ f.macd_hist.kind = "absent"
WindowNotReady(f) ==
    \/ f.rows < RequiredRows
    \/ f.natr.kind = "absent"
    \/ f.macd_hist.kind = "absent"

(* line 100: pd.isna of the latest NATR or MACD histogram cell. *)
LatestIsNa(f) == f.natr.kind = "nan" \/ f.macd_hist.kind = "nan"

(* Decimal(str(cell)): the cell's decimal value, or InvalidOperation.      *)
(* str(inf) is "inf", which Decimal parses as Infinity.                    *)
ToDecimal(c) ==
    IF c.kind = "num" THEN [ok |-> TRUE, val |-> c.val]
    ELSE IF c.kind = "inf" THEN [ok |-> TRUE, val |-> PosInf]
    ELSE IF c.kind = "-inf" THEN [ok |-> TRUE, val |-> NegInf]
    ELSE [ok |-> FALSE, val |-> DecZero]

(* lines 111-112: base spreads. *)
BaseBidSpread(natr) == DecMul(natr, bid_natr_scalar)
BaseAskSpread(natr) == DecMul(natr, ask_natr_scalar)

(* lines 115-116: trend skew. *)
SkewBidSameSign(base, macd_hist) == DecAdd(base, DecMul(macd_weight, macd_hist))
SkewBid(base, macd_hist) == DecSub(base, DecMul(macd_weight, macd_hist))
SkewAsk(base, macd_hist) == DecAdd(base, DecMul(macd_weight, macd_hist))

(* lines 111-116 raise. InvalidOperation: an infinite base spread meets an *)
(* infinite skew of the same sign on the bid, of the other sign on the     *)
(* ask. Overflow: a product, the difference or the sum lies above 10^Emax. *)
SkewRaises(natr, macd_hist) ==
    \/ DecMulRaises(natr, bid_natr_scalar)
    \/ DecMulRaises(natr, ask_natr_scalar)
    \/ DecMulRaises(macd_weight, macd_hist)
    \/ DecSubRaises(BaseBidSpread(natr), DecMul(macd_weight, macd_hist))
    \/ DecAddRaises(BaseAskSpread(natr), DecMul(macd_weight, macd_hist))

(* line 121: inv_norm = max(min(inv_pos / max_inventory, 1), -1). *)
InvNorm(inv_pos) ==
    DecMax(DecMin(DecDiv(inv_pos, max_inventory), One), DecNeg(One))

(* lines 122-123: inventory penalty. *)
PenaltyBid(spread, inv_norm) == DecAdd(spread, DecMul(inventory_phi, inv_norm))
PenaltyAsk(spread, inv_norm) == DecSub(spread, DecMul(inventory_phi, inv_norm))

(* lines 120-123 raise: Overflow in the division of a balance above        *)
(* 10^Emax, or in the sum or the difference with the penalty.              *)
PenaltyRaises(natr, macd_hist, inv_pos) ==
    \/ DecDivRaises(inv_pos, max_inventory)
    \/ DecMulRaises(inventory_phi, InvNorm(inv_pos))
    \/ DecAddRaises(SkewBid(BaseBidSpread(natr), macd_hist),
                    DecMul(inventory_phi, InvNorm(inv_pos)))
    \/ DecSubRaises(SkewAsk(BaseAskSpread(natr), macd_hist),
                    DecMul(inventory_phi, InvNorm(inv_pos)))

(* The spreads before the floor, as stored for status (lines 126-127). *)
RawBidSpread(natr, macd_hist, inv_pos) ==
    PenaltyBid(SkewBid(BaseBidSpread(natr), macd_hist), InvNorm(inv_pos))
RawAskSpread(natr, macd_hist, inv_pos) ==
    PenaltyAsk(SkewAsk(BaseAskSpread(natr), macd_hist), InvNorm(inv_pos))

(* lines 131-133: the minimum spread. *)
FloorSpreadNone(spread) == spread
FloorSpread(spread) == DecMax(spread, min_spread)

(* lines 136-138: the mid price of the book read in this tick, which the   *)
(* connector computes as (best bid + best ask) / 2.                        *)
MidPrice(book) == DecDiv(DecAdd(book[1], book[2]), DecInt(2))

(* The connector's sum or halving raises. *)
MidPriceRaises(book) ==
    \/ DecAddRaises(book[1], book[2])
    \/ DecDivRaises(DecAdd(book[1], book[2]), DecInt(2))

(* lines 140-141: quotes around the reference price. *)
BuyPrice(ref_price, bid_spread) == DecMul(ref_price, DecSub(One, bid_spread))
SellPrice(ref_price, ask_spread) == DecMul(ref_price, DecAdd(One, ask_spread))

(* lines 136-141 raise: the mid price, or Overflow or InvalidOperation    *)
(* (zero times Infinity) in a quote.                                       *)
PriceRaises(bid_spread, ask_spread, book) ==
    \/ MidPriceRaises(book)
    \/ DecSubRaises(One, bid_spread)
    \/ DecMulRaises(MidPrice(book), DecSub(One, bid_spread))
    \/ DecAddRaises(One, ask_spread)
    \/ DecMulRaises(MidPrice(book), DecAdd(One, ask_spread))

(* lines 146-147: the clip against the top of book. *)
ClipBuyNone(buy_price, best_bid) == buy_price
ClipBuy(buy_price, best_bid) == DecMin(buy_price, best_bid)
ClipSell(sell_price, best_ask) == DecMax(sell_price, best_ask)

(* lines 111-147: the quote derivation of one tick. *)
Derive(natr, macd_hist, inv_pos, book) ==
    LET raw_bid == RawBidSpread(natr, macd_hist, inv_pos)
        raw_ask == RawAskSpread(natr, macd_hist, inv_pos)
        bid_spread == FloorSpread(raw_bid)
        ask_spread == FloorSpread(raw_ask)
        ref_price == MidPrice(book)
    IN  [raw_bid |-> raw_bid, raw_ask |-> raw_ask,
         inv_norm |-> InvNorm(inv_pos),
         bid_spread |-> bid_spread, ask_spread |-> ask_spread,
         ref_price |-> ref_price,
         best_bid |-> book[1], best_ask |-> book[2],
         buy_price |-> ClipBuy(BuyPrice(ref_price, bid_spread), book[1]),
         sell_price |-> ClipSell(SellPrice(ref_price, ask_spread), book[2])]

----------------------------------------------------------------------------
(* Order reconciliation. *)

(* lines 151-156: the two order candidates. *)
Candidates(buy_price, sell_price) ==
    << [side |-> "BUY", amount |-> order_amount, price |-> buy_price],
       [side |-> "SELL", amount |-> order_amount, price |-> sell_price] >>

(* lines 158-159: what adjust_candidates(orders, all_or_none=False) may    *)
(* return: each candidate dropped, or kept with an amount from zero (a leg *)
(* without funds stays in the list with amount 0) to its own, whatever     *)
(* happens to the other.                                                   *)
LegOptions(o, amounts) ==
    {<<>>} \cup {<<[o EXCEPT !.amount = a]>> : a \in amounts}
AdjustmentsOver(orders, amounts) ==
    {b \o s : b \in LegOptions(orders[1], amounts),
              s \in LegOptions(orders[2], amounts)}
Adjustments(orders) == AdjustmentsOver(orders, 0..order_amount)

(* The adjusted amounts explored: nothing (no funds) and all. *)
SampledAmounts == {0, order_amount}
SampledAdjustments(orders) == AdjustmentsOver(orders, SampledAmounts)

(* lines 160-164: one buy() or sell() call per adjusted candidate. *)
SubmitCall(o) ==
    [op |-> IF o.side = "BUY" THEN "buy" ELSE "sell",
     amount |-> o.amount, price |-> o.price]
SubmitCallsAllOrNone(adjusted) ==
    IF Len(adjusted) = 2 THEN [i \in 1..2 |-> SubmitCall(adjusted[i])] ELSE <<>>
SubmitCalls(adjusted) ==
    [i \in 1..Len(adjusted) |-> SubmitCall(adjusted[i])]

(* The orders the submit calls of the cycle at time ts open. *)
Placed(submits, ts) ==
    {[id |-> <<ts, i>>,
      side |-> IF submits[i].op = "buy" THEN "BUY" ELSE "SELL",
      amount |-> submits[i].amount,
      price |-> submits[i].price] : i \in 1..Len(submits)}

(* lines 168-170: cancel_all_orders cancels every active order. *)
CancelCallsBuysOnly(orders) == {o.id : o \in {x \in orders : x.side = "BUY"}}
CancelCalls(orders) == {o.id : o \in orders}

(* A cancelled order leaves the active orders. *)
AfterCancel(orders, ids) == {o \in orders : o.id \notin ids}

(* line 166: the next tick's time. *)
NextTickShort(ts) == ts + order_refresh_time - 1
NextTickAfter(ts) == ts + order_refresh_time

----------------------------------------------------------------------------
(* The state after construction (lines 66-72); _next_tick reads as 0. *)

Init ==
    /\ current_timestamp = 0
    /\ next_tick = 0
    /\ last_bid_spread = DecZero
    /\ last_ask_spread = DecZero
    /\ last_inv_norm = DecZero
    /\ active_orders = {}
    /\ outcome = "init"
    /\ frame = NoFrame
    /\ quote = NoQuote
    /\ calls = NoCalls
    /\ cycle_at = -1

(* The clock moves on by one second between two on_tick invocations. *)
Clock ==
    /\ current_timestamp < MaxTime
    /\ current_timestamp' = current_timestamp + 1
    /\ outcome' = "clock"
    /\ frame' = NoFrame
    /\ quote' = NoQuote
    /\ calls' = NoCalls
    /\ UNCHANGED <<next_tick, last_bid_spread, last_ask_spread, last_inv_norm,
                   active_orders, cycle_at>>

(* An early return of on_tick: nothing is assigned and nothing is called. *)
Return(why, f) ==
    /\ outcome' = why
    /\ frame' = f
    /\ quote' = NoQuote
    /\ calls' = NoCalls
    /\ UNCHANGED <<current_timestamp, next_tick, last_bid_spread,
                   last_ask_spread, last_inv_norm, active_orders, cycle_at>>

(* lines 79-80 *)
OnTickRateLimited ==
    /\ RateLimited(current_timestamp, next_tick)
    /\ Return("rate_limited", NoFrame)

(* lines 81-82: ready_to_trade is false *)
OnTickNotReadyToTrade ==
    /\ ~RateLimited(current_timestamp, next_tick)
    /\ Return("not_ready_to_trade", NoFrame)

(* lines 97-101 *)
OnTickDataNotReady ==
    /\ ~RateLimited(current_timestamp, next_tick)
    /\ \E f \in SampledFrames :
        /\ WindowNotReady(f) \/ LatestIsNa(f)
        /\ Return("data_not_ready", Shape(f))

(* lines 104-107: the NATR conversion fails and is caught *)
OnTickNatrInvalid ==
    /\ ~RateLimited(current_timestamp, next_tick)
    /\ \E f \in SampledFrames :
        /\ ~WindowNotReady(f)
        /\ ~LatestIsNa(f)
        /\ ~ToDecimal(f.natr).ok
        /\ Return("natr_invalid", Shape(f))

(* line 108: the MACD histogram conversion fails outside the try block;    *)
(* InvalidOperation leaves on_tick before anything is assigned or called.  *)
OnTickMacdRaises ==
    /\ ~RateLimited(current_timestamp, next_tick)
    /\ \E f \in SampledFrames :
        /\ ~WindowNotReady(f)
        /\ ~LatestIsNa(f)
        /\ ToDecimal(f.natr).ok
        /\ ~ToDecimal(f.macd_hist).ok
        /\ Return("raised", Shape(f))

(* The window passes lines 97-108: both conversions succeed. *)
Converts(f) ==
    /\ ~WindowNotReady(f)
    /\ ~LatestIsNa(f)
    /\ ToDecimal(f.natr).ok
    /\ ToDecimal(f.macd_hist).ok

(* Lines 111-123 raise, before the status metrics are stored. *)
SpreadsRaise(f, inv_pos) ==
    \/ SkewRaises(ToDecimal(f.natr).val, ToDecimal(f.macd_hist).val)
    \/ PenaltyRaises(ToDecimal(f.natr).val, ToDecimal(f.macd_hist).val,
                     inv_pos)

(* Lines 136-141 raise, after the status metrics are stored. *)
PricesRaise(f, inv_pos, book) ==
    PriceRaises(
        FloorSpread(RawBidSpread(ToDecimal(f.natr).val,
                                 ToDecimal(f.macd_hist).val, inv_pos)),
        FloorSpread(RawAskSpread(ToDecimal(f.natr).val,
                                 ToDecimal(f.macd_hist).val, inv_pos)),
        book)

(* The explored inputs (window, balance, book) by the way on_tick ends on  *)
(* them: raising in lines 111-123, raising in lines 136-141 with the       *)
(* status metrics it has stored, and running to the end with the quotes    *)
(* it derives.                                                             *)
SampledSpreadRaising ==
    {f \in SampledFrames :
        Converts(f) /\ \E b \in SampledBalances : SpreadsRaise(f, b)}
SampledPriceRaising ==
    {[f |-> c[1],
      raw_bid |-> RawBidSpread(ToDecimal(c[1].natr).val,
                               ToDecimal(c[1].macd_hist).val, c[2]),
      raw_ask |-> RawAskSpread(ToDecimal(c[1].natr).val,
                               ToDecimal(c[1].macd_hist).val, c[2]),
      inv_norm |-> InvNorm(c[2])] :
        c \in {c \in SampledFrames \X SampledBalances \X SampledBooks :
                 /\ Converts(c[1])
                 /\ ~SpreadsRaise(c[1], c[2])
                 /\ PricesRaise(c[1], c[2], c[3])}}
SampledCycles ==
    {[f |-> c[1],
      q |-> Derive(ToDecimal(c[1].natr).val, ToDecimal(c[1].macd_hist).val,
                   c[2], c[3])] :
        c \in {c \in SampledFrames \X SampledBalances \X SampledBooks :
                 /\ Converts(c[1])
                 /\ ~SpreadsRaise(c[1], c[2])
                 /\ ~PricesRaise(c[1], c[2], c[3])}}

(* lines 111-123: a decimal exception leaves on_tick before anything is    *)
(* assigned or called.                                                     *)
OnTickSpreadRaises ==
    /\ ~RateLimited(current_timestamp, next_tick)
    /\ \E f \in SampledSpreadRaising : Return("raised", Shape(f))

(* lines 136-141: a decimal exception leaves on_tick after lines 126-128   *)
(* have stored the status metrics and before any call.                     *)
OnTickPriceRaises ==
    /\ ~RateLimited(current_timestamp, next_tick)
    /\ \E c \in SampledPriceRaising :
        /\ last_bid_spread' = c.raw_bid
        /\ last_ask_spread' = c.raw_ask
        /\ last_inv_norm' = c.inv_norm
        /\ outcome' = "raised"
        /\ frame' = Shape(c.f)
        /\ quote' = NoQuote
        /\ calls' = NoCalls
        /\ UNCHANGED <<current_timestamp, next_tick, active_orders, cycle_at>>

(* lines 103-166: the full cycle *)
OnTickCycle ==
    /\ ~RateLimited(current_timestamp, next_tick)
    /\ \E c \in SampledCycles :
        /\ LET f == c.f
               q == c.q
               cancels == CancelCalls(active_orders)
           IN  \E adjusted \in SampledAdjustments(
                                 Candidates(q.buy_price, q.sell_price)) :
                 LET submits == SubmitCalls(adjusted) IN
                 /\ last_bid_spread' = q.raw_bid
                 /\ last_ask_spread' = q.raw_ask
                 /\ last_inv_norm' = q.inv_norm
                 /\ active_orders' = AfterCancel(active_orders, cancels)
                                       \cup Placed(submits, current_timestamp)
                 /\ next_tick' = NextTickAfter(current_timestamp)
                 /\ outcome' = "cycle"
                 /\ frame' = Shape(f)
                 /\ quote' = [bid_spread |-> q.bid_spread,
                              ask_spread |-> q.ask_spread,
                              ref_price |-> q.ref_price,
                              best_bid |-> q.best_bid, best_ask |-> q.best_ask,
                              buy_price |-> q.buy_price,
                              sell_price |-> q.sell_price,
                              adjusted |-> adjusted]
                 /\ calls' = [cancels |-> cancels, submits |-> submits]
                 /\ cycle_at' = current_timestamp
                 /\ UNCHANGED current_timestamp

(* lines 172-176: did_fill_order logs and notifies, and assigns nothing.   *)
(* The fill that raised the event was partial, and the order stays open,   *)
(* or it completed the order, which has left the active orders.            *)
DidFillOrder ==
    /\ \E o \in active_orders :
        active_orders' \in {active_orders, active_orders \ {o}}
    /\ outcome' = "fill"
    /\ frame' = NoFrame
    /\ quote' = NoQuote
    /\ calls' = NoCalls
    /\ UNCHANGED <<current_timestamp, next_tick, last_bid_spread,
                   last_ask_spread, last_inv_norm, cycle_at>>

OnTick ==
    \/ OnTickRateLimited
    \/ OnTickNotReadyToTrade
    \/ OnTickDataNotReady
    \/ OnTickNatrInvalid
    \/ OnTickMacdRaises
    \/ OnTickSpreadRaises
    \/ OnTickPriceRaises
    \/ OnTickCycle

Next == Clock \/ OnTick \/ DidFillOrder

Spec == Init /\ [][Next]_vars

----------------------------------------------------------------------------
(* The spread computation of lines 110-133 on its own, applied to one      *)
(* NATR (finite, infinite, or so large that the base spread overflows),   *)
(* one balance and two histogram values h1 < h2, finite or infinite.       *)
(* Here frame holds the inputs and quote the two results. The histogram    *)
(* values are multiples of 0.00001 and two values far below the last       *)
(* digit the context keeps of a spread.                                    *)

SkewNatrValues ==
    {DecE(n, -3) : n \in 0..MaxSkewNatr} \cup {PosInf, DecE(9, 1000001)}
SkewHistValues ==
    {DecE(h, -5) : h \in -MaxSkewHist..MaxSkewHist}
    \cup {DecE(1, -40), DecE(2, -40), NegInf, PosInf}
SkewBalanceValues == SampledBalances \cup {DecE(1, -3)}

Spreads(natr, macd_hist, inv_pos) ==
    [raw_bid |-> RawBidSpread(natr, macd_hist, inv_pos),
     raw_ask |-> RawAskSpread(natr, macd_hist, inv_pos),
     bid_spread |-> FloorSpread(RawBidSpread(natr, macd_hist, inv_pos)),
     ask_spread |-> FloorSpread(RawAskSpread(natr, macd_hist, inv_pos))]

SkewInit ==
    /\ current_timestamp = 0
    /\ next_tick = 0
    /\ last_bid_spread = DecZero
    /\ last_ask_spread = DecZero
    /\ last_inv_norm = DecZero
    /\ active_orders = {}
    /\ outcome = "skew_input"
    /\ \E n \in SkewNatrValues, h1 \in SkewHistValues, h2 \in SkewHistValues,
          b \in SkewBalanceValues :
        /\ DecLt(h1, h2)
        /\ frame = [natr |-> n, h1 |-> h1, h2 |-> h2, inv_pos |-> b]
    /\ quote = NoQuote
    /\ calls = NoCalls
    /\ cycle_at = -1

SkewCompute ==
    /\ outcome = "skew_input"
    /\ ~SkewRaises(frame.natr, frame.h1)
    /\ ~SkewRaises(frame.natr, frame.h2)
    /\ ~PenaltyRaises(frame.natr, frame.h1, frame.inv_pos)
    /\ ~PenaltyRaises(frame.natr, frame.h2, frame.inv_pos)
    /\ outcome' = "skew_done"
    /\ quote' = [lo |-> Spreads(frame.natr, frame.h1, frame.inv_pos),
                 hi |-> Spreads(frame.natr, frame.h2, frame.inv_pos)]
    /\ UNCHANGED <<current_timestamp, next_tick, last_bid_spread,
                   last_ask_spread, last_inv_norm, active_orders, frame,
                   calls, cycle_at>>

(* One of the two computations raises in lines 111-123. *)
SkewRaise ==
    /\ outcome = "skew_input"
    /\ \/ SkewRaises(frame.natr, frame.h1)
       \/ SkewRaises(frame.natr, frame.h2)
       \/ PenaltyRaises(frame.natr, frame.h1, frame.inv_pos)
       \/ PenaltyRaises(frame.natr, frame.h2, frame.inv_pos)
    /\ outcome' = "skew_raised"
    /\ UNCHANGED <<current_timestamp, next_tick, last_bid_spread,
                   last_ask_spread, last_inv_norm, active_orders, frame,
                   quote, calls, cycle_at>>

SkewNext == SkewCompute \/ SkewRaise

SkewSpec == SkewInit /\ [][SkewNext]_vars

----------------------------------------------------------------------------
(* Properties. *)

BuyOrders == {o \in active_orders : o.side = "BUY"}
SellOrders == {o \in active_orders : o.side = "SELL"}
Missing(kind) == kind \in {"absent", "nan"}

(* C1: every cycle's quote pair has buy_price <= best_bid and              *)
(* sell_price >= best_ask, for the best bid and ask read in that tick.     *)
C1_QuotesClipped ==
    outcome = "cycle" =>
        /\ DecLe(quote.buy_price, quote.best_bid)
        /\ DecLe(quote.best_ask, quote.sell_price)

(* A cycle in which the unclipped buy price lies above the best bid and   *)
(* the unclipped sell price below the best ask: both clips act.            *)
C1_Witness ==
    /\ outcome = "cycle"
    /\ DecLt(quote.best_bid, BuyPrice(quote.ref_price, quote.bid_spread))
    /\ DecLt(SellPrice(quote.ref_price, quote.ask_spread), quote.best_ask)
    /\ quote.buy_price = quote.best_bid
    /\ quote.sell_price = quote.best_ask

(* C2: the bid and ask spreads a cycle prices its quotes with are both at  *)
(* least min_spread, hence positive, whatever the indicators and balance.  *)
C2_SpreadsFloored ==
    outcome = "cycle" =>
        /\ DecLe(min_spread, quote.bid_spread)
        /\ DecLe(min_spread, quote.ask_spread)
        /\ DecLt(DecZero, quote.bid_spread)
        /\ DecLt(DecZero, quote.ask_spread)

(* A cycle whose bid spread before the floor was a negative number, and    *)
(* one could not tell from the floored value.                              *)
C2_Witness ==
    /\ outcome = "cycle"
    /\ last_bid_spread \in FiniteDecs
    /\ DecLt(last_bid_spread, DecZero)
    /\ quote.bid_spread = min_spread

(* C3: no order a cycle submits is marketable: every BUY (of a positive    *)
(* amount: an empty order cannot trade) is priced strictly below the best  *)
(* ask, every such SELL strictly above the best bid, and the cycle's       *)
(* buy_price is strictly below its sell_price.                             *)
C3_NoCrossing ==
    outcome = "cycle" =>
        /\ \A i \in 1..Len(calls.submits) :
            LET c == calls.submits[i] IN
            /\ (c.op = "buy" /\ c.amount > 0) => DecLt(c.price, quote.best_ask)
            /\ (c.op = "sell" /\ c.amount > 0) => DecLt(quote.best_bid, c.price)
        /\ DecLt(quote.buy_price, quote.sell_price)

(* C4: a tick that reads a window shorter than                             *)
(* max(natr_length, macd_slow + macd_signal), or whose latest NATR or      *)
(* histogram value is missing, derives no quotes, makes no cancel, buy or  *)
(* sell call and leaves the open orders as they were.                      *)
C4_NotReadySkips ==
    [][(/\ frame' # NoFrame
        /\ \/ frame'.rows < Max(natr_length, macd_slow + macd_signal)
           \/ Missing(frame'.natr)
           \/ Missing(frame'.macd_hist))
       => /\ calls' = NoCalls
          /\ quote' = NoQuote
          /\ active_orders' = active_orders]_vars

(* A tick skipped for a window one row short while orders are open. *)
C4_Witness ==
    /\ outcome = "data_not_ready"
    /\ frame.rows = macd_slow + macd_signal - 1
    /\ frame.natr = "num"
    /\ frame.macd_hist = "num"
    /\ active_orders # {}

(* C5: a cycle cancels every order that was open, whatever the funding     *)
(* adjustment returns, and makes exactly one submit call per returned      *)
(* intent, in order, with the intent's side, amount and price.             *)
C5_CancelAllSubmitEach ==
    [][outcome' = "cycle" =>
        /\ calls'.cancels = {o.id : o \in active_orders}
        /\ Len(calls'.submits) = Len(quote'.adjusted)
        /\ \A i \in 1..Len(quote'.adjusted) :
            /\ calls'.submits[i].op =
                 (IF quote'.adjusted[i].side = "BUY" THEN "buy" ELSE "sell")
            /\ calls'.submits[i].amount = quote'.adjusted[i].amount
            /\ calls'.submits[i].price = quote'.adjusted[i].price]_vars

(* A cycle with orders to cancel whose funding adjustment returned only    *)
(* the sell leg: the one submit call is that sell.                         *)
C5_Witness ==
    /\ outcome = "cycle"
    /\ calls.cancels # {}
    /\ Len(quote.adjusted) = 1
    /\ quote.adjusted[1].side = "SELL"
    /\ Len(calls.submits) = 1
    /\ calls.submits[1].op = "sell"

(* C7: when a cycle has completed, the open orders are at most one BUY and *)
(* at most one SELL, each submitted by that cycle at that cycle's          *)
(* buy_price or sell_price; no order of an earlier cycle is open.          *)
C7_OrdersMatchQuotes ==
    outcome = "cycle" =>
        /\ Cardinality(BuyOrders) <= 1
        /\ Cardinality(SellOrders) <= 1
        /\ \A o \in active_orders :
            /\ o.id[1] = current_timestamp
            /\ o.side = "BUY" => o.price = quote.buy_price
            /\ o.side = "SELL" => o.price = quote.sell_price

(* A cycle that cancelled two orders of an earlier cycle and opened two. *)
C7_Witness ==
    /\ outcome = "cycle"
    /\ Cardinality(calls.cancels) = 2
    /\ Cardinality(BuyOrders) = 1
    /\ Cardinality(SellOrders) = 1

(* C8: once a cycle has completed at time t, no tick before                *)
(* t + order_refresh_time makes a cancel, buy or sell call or completes a  *)
(* cycle.                                                                  *)
C8_MinimumSpacing ==
    [][(cycle_at >= 0 /\ (outcome' = "cycle" \/ calls' # NoCalls))
       => current_timestamp' >= cycle_at + order_refresh_time]_vars

(* A second cycle, exactly order_refresh_time after the one whose orders   *)
(* it cancels.                                                             *)
C8_Witness ==
    /\ outcome = "cycle"
    /\ \E id \in calls.cancels : current_timestamp = id[1] + order_refresh_time

(* C9: only a completed cycle changes the next-tick time, to the current   *)
(* time plus order_refresh_time; a tick that returns early leaves it       *)
(* unchanged, and after a not-ready skip the rate limit still lets the     *)
(* next invocation through.                                                *)
C9_NextTickFrame ==
    [][/\ next_tick' # next_tick => outcome' = "cycle"
       /\ outcome' = "cycle" =>
            next_tick' = current_timestamp + order_refresh_time
       /\ outcome' \in {"rate_limited", "not_ready_to_trade",
                        "data_not_ready", "natr_invalid"} =>
            next_tick' = next_tick
       /\ outcome' \in {"not_ready_to_trade", "data_not_ready",
                        "natr_invalid"} =>
            current_timestamp' >= next_tick']_vars

(* A data-not-ready skip at the very time the previous cycle scheduled. *)
C9_Witness ==
    /\ outcome = "data_not_ready"
    /\ cycle_at >= 0
    /\ next_tick = cycle_at + order_refresh_time
    /\ current_timestamp = next_tick

(* C10: a tick whose latest NATR or histogram value cannot be converted    *)
(* to a decimal returns normally, makes no call and leaves the status      *)
(* metrics and the next-tick time unchanged.                               *)
C10_ConversionSkips ==
    [][(frame'.natr = "unparsable" \/ frame'.macd_hist = "unparsable")
       => /\ outcome' \in {"data_not_ready", "natr_invalid"}
          /\ calls' = NoCalls
          /\ UNCHANGED <<last_bid_spread, last_ask_spread, last_inv_norm,
                         next_tick, active_orders>>]_vars

(* C6 as stated: for h1 < h2 the spread computation gives a strictly       *)
(* smaller bid_spread and a strictly larger ask_spread for h2.             *)
C6_StrictAfterFloor ==
    outcome = "skew_done" =>
        /\ DecLt(quote.hi.bid_spread, quote.lo.bid_spread)
        /\ DecLt(quote.lo.ask_spread, quote.hi.ask_spread)

(* C6 amended: for h1 < h2 the bid spread for h2 is never larger than the  *)
(* one for h1 and the ask spread for h2 never smaller, before the floor    *)
(* and after it.                                                           *)
C6_Monotone ==
    outcome = "skew_done" =>
        /\ DecLe(quote.hi.raw_bid, quote.lo.raw_bid)
        /\ DecLe(quote.lo.raw_ask, quote.hi.raw_ask)
        /\ DecLe(quote.hi.bid_spread, quote.lo.bid_spread)
        /\ DecLe(quote.lo.ask_spread, quote.hi.ask_spread)

(* Two finite histogram values with the bid spread strictly smaller for    *)
(* the larger one, and both ask spreads at the floor.                      *)
C6_Witness ==
    /\ outcome = "skew_done"
    /\ frame.natr \in FiniteDecs
    /\ frame.h1 \in FiniteDecs
    /\ frame.h2 \in FiniteDecs
    /\ DecLt(quote.hi.bid_spread, quote.lo.bid_spread)
    /\ DecLt(quote.lo.raw_ask, quote.hi.raw_ask)
    /\ quote.lo.ask_spread = min_spread
    /\ quote.hi.ask_spread = min_spread

====
